---- MODULE Spec2Model ----
(***************************************************************************)
(* A model of vPET_ABC_FDG_GPU.py: the prior sampling of main, and vABC:   *)
(* table load, forward simulation, output file initialisation, the chunk   *)
(* loop (extract_TAC_chunks, calculate_results, output_dataframe,          *)
(* write_csv_chunks) and the final compress_csv.                           *)
(*                                                                         *)
(* Abstractions.  A time-activity curve has one time frame and its value   *)
(* is a small natural number, so a predicted TAC M[s] and an observed TAC  *)
(* are numbers and the L1 distance of line 330 is |M[s] - Ct[v]|.  The     *)
(* forward model (cumconv, float16) is not computed: M is any S-vector of  *)
(* TAC values.  A rational is a pair <<numerator, denominator>>.  A        *)
(* parameter draw keeps alpha1 and model; a row of the parameter posterior *)
(* keeps the index of the draw whose transformed values it carries.  A     *)
(* path is a sequence of string pieces, so that str.replace("h5", "csv")   *)
(* is computed on it.  The environment may make one output operation fail  *)
(* (variable fault).                                                       *)
(***************************************************************************)
EXTENDS Integers, Sequences, FiniteSets, TLC

\* ---------------------------------------------------------------- bounds
MaxVoxels == 7      \* voxel columns of the input table: 0..MaxVoxels
MaxChunk == 3       \* chunk_size: 1..MaxChunk
MaxS == 3           \* prior simulation size S: 1..MaxS
MaxTac == 2         \* TAC values: 0..MaxTac

\* ------------------------------------------------------ program constants
num_of_other_columns == 3   \* time_frame_size, Ti, Cb
AlphaLow == 5               \* alpha1 ~ U(0.0005, 0.015): a draw, in units of 1e-4

TacVals == 0..MaxTac
AlphaVals == {AlphaLow}
Thresholds == {<<1, 4>>, <<1, 2>>, <<3, 4>>}
None == <<>>
Faults == {"none", "init", "para", "model", "compress"}

\* ------------------------------------------------------------ arithmetic
Min(a, b) == IF a <= b THEN a ELSE b
Max(a, b) == IF a >= b THEN a ELSE b
Abs(a) == IF a < 0 THEN -a ELSE a
RatLess(a, b) == a[1] * b[2] < b[1] * a[2]
RatLeq(a, b) == a[1] * b[2] <= b[1] * a[2]
RatEq(a, b) == a[1] * b[2] = b[1] * a[2]

\* ------------------------------------------------------------ paths, files
ParaPath == <<"parameters.", "csv">>
ModelPaths == {<<"model.", "h5">>, <<"model.", "csv">>}
\* path_output_model.replace("h5", "csv")
ReplaceH5(path) == [i \in DOMAIN path |-> IF path[i] = "h5" THEN "csv" ELSE path[i]]
Paths == {ParaPath} \cup ModelPaths \cup {ReplaceH5(p) : p \in ModelPaths}
NoFile == [kind |-> "none", rows |-> <<>>]
\* DataFrame(columns = ...).to_csv / to_hdf (mode "w"): a header and no rows
EmptyTable(kind) == [kind |-> kind, rows |-> <<>>]
\* to_csv / to_hdf in append mode
AppendRows(file, kind, rows) == [kind |-> kind, rows |-> file.rows \o rows]

VARIABLES
    pc,                 \* where the run is: "main", "vabc", "loop", "after_loop", "done", "failed"
    err,                \* the exception that ended the run, or "none"
    df,                 \* the input table: its column count and the observed TAC of each voxel column
    num_voxel,          \* vABC's num_voxel: None or <<n>> (resolved at line 425)
    chunk_size, S, thresh, model_0_prob_thres,
    write_paras, output_compressed, path_output_model,
    fault,              \* the output operation the environment makes fail, or "none"
    par_mat,            \* the prior matrix, one record per draw
    M,                  \* the predicted TAC of each draw (line 415)
    index,              \* vABC's index: the first column of the next chunk
    iter,               \* the iterations of the for loop of line 431 completed
    total_iterations,
    fs,                 \* the output files on disk
    chunks,             \* history: the chunks extract_TAC_chunks returned
    errors,             \* calculate_results' errors of the last chunk
    accepted_mask       \* calculate_results' accepted_mask of the last chunk

vars == <<pc, err, df, num_voxel, chunk_size, S, thresh, model_0_prob_thres,
          write_paras, output_compressed, path_output_model, fault,
          par_mat, M, index, iter, total_iterations, fs,
          chunks, errors, accepted_mask>>

config == <<df, chunk_size, S, thresh, model_0_prob_thres,
            write_paras, output_compressed, path_output_model, fault>>

\* ------------------------------------------------------------------ main
\* alpha1[model == 0] = 0
ForceAlpha1Wrong(alpha1, model) == [s \in DOMAIN alpha1 |-> IF model[s] = 1 THEN 0 ELSE alpha1[s]]
ForceAlpha1(alpha1, model) == [s \in DOMAIN alpha1 |-> IF model[s] = 0 THEN 0 ELSE alpha1[s]]
\* cp.column_stack((Vb, alpha1, alpha2, theta1, theta2, model))
ColumnStack(alpha1, model) == [s \in DOMAIN alpha1 |-> [alpha1 |-> alpha1[s], model |-> model[s]]]

\* ------------------------------------------------------- extract_TAC_chunks
ChunkEndNoLimit(ncols, i, csize, nvox) == Min(i + csize, ncols)
ChunkEnd(ncols, i, csize, nvox) ==
    LET nv == IF nvox = None THEN ncols - num_of_other_columns ELSE nvox[1]
    IN  Min(i + csize, Min(ncols, nv + num_of_other_columns))
\* df.iloc[:, index:chunk_end]: the observed TACs of columns index..chunk_end-1
ExtractTACChunks(d, i, csize, nvox) ==
    LET e == ChunkEnd(d.ncols, i, csize, nvox)
    IN  [k \in 1..(e - i) |-> d.vox[i - num_of_other_columns + k]]

\* -------------------------------------------------------- total_iterations
TotalIterations(nv, ncols, csize) ==
    LET n == Min(nv, ncols - num_of_other_columns)
    IN  IF n % csize = 0 THEN n \div csize ELSE (n \div csize) + 1

\* -------------------------------------------------------- calculate_results
\* errors = cp.sum(cp.abs(M - Ct), axis = -1): (num_vox, S)
Errors(m, Ct) == [v \in DOMAIN Ct |-> [s \in DOMAIN m |-> Abs(m[s] - Ct[v])]]
\* the k-th smallest (k = 1..Len(e)) element of e
KthSmallest(e, k) ==
    CHOOSE x \in {e[i] : i \in DOMAIN e} :
        /\ Cardinality({i \in DOMAIN e : e[i] < x}) < k
        /\ Cardinality({i \in DOMAIN e : e[i] <= x}) >= k
\* cp.quantile(e, q), linear interpolation between the ranks floor and ceil of
\* q * (n - 1); the result is the rational <<numerator, q[2]>>
QuantileRankBelow(e, q) ==
    LET n == Len(e)
        pos == q[1] * (n - 1)
        lo == Max((pos \div q[2]) - 1, 0)
        hi == Min(lo + 1, n - 1)
        a == KthSmallest(e, lo + 1)
        b == KthSmallest(e, hi + 1)
    IN  <<q[2] * a + (pos % q[2]) * (b - a), q[2]>>
Quantile(e, q) ==
    LET n == Len(e)
        pos == q[1] * (n - 1)
        lo == pos \div q[2]
        hi == Min(lo + 1, n - 1)
        a == KthSmallest(e, lo + 1)
        b == KthSmallest(e, hi + 1)
    IN  <<q[2] * a + (pos % q[2]) * (b - a), q[2]>>
\* accepted_mask = errors <= h[:, None]
AcceptedMaskStrict(errs, q) ==
    [v \in DOMAIN errs |->
        LET h == Quantile(errs[v], q)
        IN  [s \in DOMAIN errs[v] |-> RatLess(<<errs[v][s], 1>>, h)]]
AcceptedMask(errs, q) ==
    [v \in DOMAIN errs |->
        LET h == Quantile(errs[v], q)
        IN  [s \in DOMAIN errs[v] |-> RatLeq(<<errs[v][s], 1>>, h)]]
\* cp.count_nonzero(mask[v])
CountNonzero(row) == Cardinality({s \in DOMAIN row : row[s]})
\* accepted_size = int(cp.count_nonzero(accepted_mask[0]))
AcceptedSize(mask) == CountNonzero(mask[1])
\* par_mat[accepted_mask]: the selected draws, flattened in row-major order
\* (voxel by voxel, draws ascending); each stands for its 6 values
MaskedDraws(mask, n) ==
    LET cells == [k \in 1..(Len(mask) * n) |-> <<((k - 1) \div n) + 1, ((k - 1) % n) + 1>>]
        Sel(c) == mask[c[1]][c[2]]
        kept == SelectSeq(cells, Sel)
    IN  [k \in DOMAIN kept |-> kept[k][2]]
\* accepted.reshape(num_vox, accepted_size, num_variable) raises ValueError
\* unless the sizes agree
ReshapeFails(flat, num_vox, accepted_size) == Len(flat) # num_vox * accepted_size
Reshape(flat, num_vox, accepted_size) ==
    [v \in 1..num_vox |-> [j \in 1..accepted_size |-> flat[(v - 1) * accepted_size + j]]]
\* percentage_zeros = cp.mean(models == 0, axis = -1), as <<zeros, accepted_size>>
PercentageZeros(acc, pm) ==
    [v \in DOMAIN acc |-> <<Cardinality({j \in DOMAIN acc[v] : pm[acc[v][j]].model = 0}), Len(acc[v])>>]
\* models = (percentage_zeros < model_0_prob_thres).astype(cp.int32)
ModelOf(pz, thres) == IF RatLess(pz, thres) THEN 1 ELSE 0
\* model_p = cp.column_stack((voxel_numbers, models, percentage_zeros))
ModelP(acc, pm, thres, vox_num_start) ==
    LET pz == PercentageZeros(acc, pm)
    IN  [v \in DOMAIN acc |->
            [Voxel_No |-> vox_num_start + v - 1, model |-> ModelOf(pz[v], thres), p |-> pz[v]]]
\* accepted = cp.column_stack((voxel_numbers.repeat(accepted_size), accepted))
Para(flat, accepted_size, vox_num_start) ==
    [i \in DOMAIN flat |->
        [Voxel_No |-> vox_num_start + ((i - 1) \div accepted_size), draw |-> flat[i]]]

\* --------------------------------------------------------- output_dataframe
\* .replace({0: 'k4 zero', 1: 'k4 non-zero'})
LabelOf(model) == IF model = 0 THEN "k4 zero" ELSE "k4 non-zero"
\* np.where(model == 1, 1 - p, p)
ProbabilityOfModelSwapped(model, p) == IF model = 0 THEN <<p[2] - p[1], p[2]>> ELSE p
ProbabilityOfModel(model, p) == IF model = 1 THEN <<p[2] - p[1], p[2]>> ELSE p
ModelPDf(model_p) ==
    [v \in DOMAIN model_p |->
        [Voxel_No |-> model_p[v].Voxel_No,
         model |-> LabelOf(model_p[v].model),
         probability_of_model |-> ProbabilityOfModel(model_p[v].model, model_p[v].p)]]
ParaDf(para, pm) ==
    [i \in DOMAIN para |->
        [Voxel_No |-> para[i].Voxel_No, draw |-> para[i].draw,
         model |-> LabelOf(pm[para[i].draw].model)]]

\* ---------------------------------------------------------- initial states
\* the input tables with the given column counts and observed TAC values
Tables(ncolsSet, vals) ==
    UNION {{[ncols |-> c, vox |-> v] : v \in [1..Max(c - num_of_other_columns, 0) -> vals]} : c \in ncolsSet}
\* the voxel limits: None (all) or a number
VoxelLimits == {None} \cup {<<n>> : n \in 0..(MaxVoxels + 1)}

InitWith(tables, limits, sizes, Ss, qs, thresholds, flags, comp, paths, faults) ==
    /\ pc = "main" /\ err = "none"
    /\ df \in tables
    /\ num_voxel \in limits
    /\ chunk_size \in sizes
    /\ S \in Ss
    /\ thresh \in qs
    /\ model_0_prob_thres \in thresholds
    /\ write_paras \in flags
    /\ output_compressed \in comp
    /\ path_output_model \in paths
    /\ fault \in faults
    /\ par_mat = <<>> /\ M = <<>>
    /\ index = 0 /\ iter = 0 /\ total_iterations = 0
    /\ fs = [p \in Paths |-> NoFile]
    /\ chunks = <<>> /\ errors = <<>> /\ accepted_mask = <<>>

\* the streaming runs: every table shape, voxel limit, chunk size, output
\* option and fault; one prior draw
Init ==
    InitWith(Tables(0..(num_of_other_columns + MaxVoxels), {0}), VoxelLimits, 1..MaxChunk,
             {1}, {<<1, 2>>}, {<<1, 2>>}, BOOLEAN, BOOLEAN, ModelPaths, Faults)

\* the acceptance runs: one voxel observed as 0, every S, quantile, threshold
\* and prediction, so that the distances are every vector of TAC values
InitAccept ==
    InitWith(Tables({num_of_other_columns + 1}, {0}), {None}, {1},
             1..MaxS, Thresholds, Thresholds, {TRUE}, {FALSE}, {<<"model.", "csv">>}, {"none"})

\* the runs with one chunk of MaxChunk voxels and MaxS draws
InitTies ==
    InitWith(Tables({num_of_other_columns + MaxChunk}, TacVals), {None}, {MaxChunk},
             {MaxS}, Thresholds, {<<1, 2>>}, {TRUE}, {FALSE}, {<<"model.", "csv">>}, {"none"})

\* the quantiles of [0, 1]: the ends and the values between
UnitQuantiles == Thresholds \cup {<<0, 1>>, <<1, 1>>}
\* the quantile runs: one voxel observed as 0, every S, prediction and
\* quantile of [0, 1]
InitQuantile ==
    InitWith(Tables({num_of_other_columns + 1}, {0}), {None}, {1},
             1..MaxS, UnitQuantiles, {<<1, 2>>}, {TRUE}, {FALSE}, {<<"model.", "csv">>}, {"none"})

\* the runs of two chunks of one voxel each, observed at an end of the TAC
\* range, every S and prediction
InitShared ==
    InitWith(Tables({num_of_other_columns + 2}, {0, MaxTac}), {None}, {1},
             1..MaxS, {<<1, 2>>}, {<<1, 2>>}, {TRUE}, {FALSE}, {<<"model.", "csv">>}, {"none"})

\* ------------------------------------------------------------------ actions
\* main, lines 492-512: the prior sample, then the call of vABC
Main ==
    /\ pc = "main"
    /\ \E alpha1 \in [1..S -> AlphaVals], model \in [1..S -> {0, 1}] :
          par_mat' = ColumnStack(ForceAlpha1(alpha1, model), model)
    /\ pc' = "vabc"
    /\ UNCHANGED <<err, config, num_voxel, M, index, iter, total_iterations, fs,
                   chunks, errors, accepted_mask>>

\* output_file_init, lines 86-116
OutputFileInit(files, path_model, wp, oc) ==
    LET f1 == IF wp THEN [files EXCEPT ![ParaPath] = EmptyTable(IF oc THEN "hdf" ELSE "csv")]
                    ELSE files
    IN  [f1 EXCEPT ![ReplaceH5(path_model)] = EmptyTable("csv")]

\* vABC, lines 398-429: read the table, extract_values, generate_FDG_models,
\* output_file_init, the iteration count
VabcStart ==
    /\ pc = "vabc"
    /\ IF df.ncols < num_of_other_columns
       THEN \* extract_values: df.iloc[:, k] raises IndexError
            /\ pc' = "failed" /\ err' = "IndexError"
            /\ UNCHANGED <<num_voxel, M, index, total_iterations, fs>>
       ELSE /\ M' \in [1..S -> TacVals]
            /\ index' = num_of_other_columns
            /\ IF fault = "init"
               THEN /\ pc' = "failed" /\ err' = "OSError"
                    /\ UNCHANGED <<num_voxel, total_iterations, fs>>
               ELSE /\ fs' = OutputFileInit(fs, path_output_model, write_paras, output_compressed)
                    /\ num_voxel' = IF num_voxel = None
                                    THEN <<df.ncols - num_of_other_columns>> ELSE num_voxel
                    /\ total_iterations' = TotalIterations(num_voxel'[1], df.ncols, chunk_size)
                    /\ pc' = "loop" /\ UNCHANGED err
    /\ UNCHANGED <<config, par_mat, iter, chunks, errors, accepted_mask>>

\* write_csv_chunks, lines 196-231: the parameter rows, then the model rows;
\* the result is <<files, error>>
WriteCsvChunks(files, para_df, model_p_df, path_model, wp, oc, flt) ==
    LET f1 == IF wp
              THEN [files EXCEPT ![ParaPath] = AppendRows(@, IF oc THEN "hdf" ELSE "csv", para_df)]
              ELSE files
        f2 == [f1 EXCEPT ![ReplaceH5(path_model)] = AppendRows(@, "csv", model_p_df)]
    IN  IF wp /\ flt = "para" THEN <<files, "OSError">>
        ELSE IF flt = "model" THEN <<f1, "OSError">>
        ELSE <<f2, "none">>

\* vABC's par_mat after calculate_results, lines 341-351: broadcast_to and
\* the boolean indexing build new arrays bound to local names, so the
\* caller's matrix is left as it was
CallerParMatMasked(pm, mask) ==
    [s \in DOMAIN pm |-> IF mask[1][s] THEN pm[s] ELSE [alpha1 |-> 0, model |-> 0]]
CallerParMat(pm, mask) == pm

\* vABC, lines 431-443: one iteration of the chunk loop
ChunkIter ==
    /\ pc = "loop" /\ iter < total_iterations
    /\ IF index >= df.ncols \/ index >= num_voxel[1] + num_of_other_columns
       THEN \* break
            /\ pc' = "after_loop"
            /\ UNCHANGED <<err, index, iter, fs, chunks, errors, accepted_mask, par_mat>>
       ELSE LET Ct == ExtractTACChunks(df, index, chunk_size, num_voxel)
                num_vox == Len(Ct)
                errs == Errors(M, Ct)
                mask == AcceptedMask(errs, thresh)
                accepted_size == AcceptedSize(mask)
                flat == MaskedDraws(mask, S)
                acc == Reshape(flat, num_vox, accepted_size)
                model_p == ModelP(acc, par_mat, model_0_prob_thres, index - 3)
                para == Para(flat, accepted_size, index - 3)
                out == WriteCsvChunks(fs, ParaDf(para, par_mat), ModelPDf(model_p),
                                      path_output_model, write_paras, output_compressed, fault)
            IN  /\ chunks' = Append(chunks, [first |-> index,
                                             last |-> index + num_vox - 1,
                                             vox_num_start |-> index - 3])
                /\ errors' = errs
                /\ accepted_mask' = mask
                /\ par_mat' = CallerParMat(par_mat, mask)
                /\ IF ReshapeFails(flat, num_vox, accepted_size)
                   THEN /\ pc' = "failed" /\ err' = "ValueError"
                        /\ UNCHANGED <<index, iter, fs>>
                   ELSE /\ fs' = out[1]
                        /\ IF out[2] = "none"
                           THEN /\ index' = index + chunk_size
                                /\ iter' = iter + 1
                                /\ UNCHANGED <<pc, err>>
                           ELSE /\ pc' = "failed" /\ err' = out[2]
                                /\ UNCHANGED <<index, iter>>
    /\ UNCHANGED <<config, num_voxel, M, total_iterations>>

\* compress_csv, lines 240-252
CompressCsv(files, path_model) ==
    LET csv == ReplaceH5(path_model)
        f1 == [files EXCEPT ![path_model] = [kind |-> "hdf", rows |-> files[csv].rows]]
    IN  IF f1[csv].kind # "none" THEN [f1 EXCEPT ![csv] = NoFile] ELSE f1

\* vABC, lines 445-446: the end of the loop and the optional compression
Finish ==
    /\ \/ pc = "loop" /\ iter >= total_iterations
       \/ pc = "after_loop"
    /\ IF output_compressed
       THEN IF fault = "compress"
            THEN pc' = "failed" /\ err' = "OSError" /\ UNCHANGED fs
            ELSE pc' = "done" /\ fs' = CompressCsv(fs, path_output_model) /\ UNCHANGED err
       ELSE pc' = "done" /\ UNCHANGED <<err, fs>>
    /\ UNCHANGED <<config, num_voxel, par_mat, M, index, iter, total_iterations,
                   chunks, errors, accepted_mask>>

Next == Main \/ VabcStart \/ ChunkIter \/ Finish

Spec == Init /\ [][Next]_vars
SpecAccept == InitAccept /\ [][Next]_vars
SpecTies == InitTies /\ [][Next]_vars
SpecShared == InitShared /\ [][Next]_vars
SpecQuantile == InitQuantile /\ [][Next]_vars

\* ------------------------------------------------------------------ claims
\* the voxel columns of the table, and the voxels the run is to process
NumVoxelColumns == df.ncols - num_of_other_columns
VoxelsToProcess ==
    IF num_voxel = None THEN NumVoxelColumns ELSE Min(num_voxel[1], NumVoxelColumns)
CeilDiv(n, d) == CHOOSE m \in 0..n : m * d >= n /\ (m = 0 \/ (m - 1) * d < n)
ModelCsvPath == ReplaceH5(path_output_model)
\* the model posterior output: the flat table while it exists, else the file
\* at path_output_model
ModelPosterior ==
    IF fs[ModelCsvPath].kind # "none" THEN fs[ModelCsvPath] ELSE fs[path_output_model]
LastChunk == chunks[Len(chunks)]
RowsOfVoxelsFrom(file, v) == {i \in DOMAIN file.rows : file.rows[i].Voxel_No >= v}
NoTies(e) == \A i, j \in DOMAIN e : i # j => e[i] # e[j]
\* Python's round of n/d (n >= 0, d > 0), halves to even
PyRound(n, d) ==
    LET q == n \div d
        r == n % d
    IN  IF 2 * r < d THEN q
        ELSE IF 2 * r > d THEN q + 1
        ELSE IF q % 2 = 0 THEN q ELSE q + 1

\* C1: whenever two voxels of the chunk have different accepted counts, the
\* chunk fails with the reshape error and none of its rows is written.
C1_MismatchFails ==
    (/\ accepted_mask # <<>>
     /\ \E v, w \in DOMAIN accepted_mask :
            CountNonzero(accepted_mask[v]) # CountNonzero(accepted_mask[w]))
    => /\ pc = "failed" /\ err = "ValueError"
       /\ RowsOfVoxelsFrom(fs[ParaPath], LastChunk.vox_num_start) = {}
       /\ RowsOfVoxelsFrom(fs[ModelCsvPath], LastChunk.vox_num_start) = {}

\* C2: with N >= 1 voxel columns the loop extracts ceil(min(num_voxel, N) /
\* chunk_size) chunks: contiguous, disjoint, ascending from column 3, each of
\* width chunk_size except possibly the last, covering the voxels
\* 0 .. min(num_voxel, N) - 1 once each, numbered from first column minus 3.
C2_Chunks ==
    NumVoxelColumns >= 1 =>
        /\ \A k \in DOMAIN chunks :
              /\ chunks[k].first = num_of_other_columns + (k - 1) * chunk_size
              /\ chunks[k].last = Min(chunks[k].first + chunk_size - 1,
                                      VoxelsToProcess + num_of_other_columns - 1)
              /\ chunks[k].first <= chunks[k].last
              /\ chunks[k].vox_num_start = chunks[k].first - 3
              /\ k > 1 => chunks[k].first = chunks[k - 1].last + 1
              /\ k < Len(chunks) => chunks[k].last - chunks[k].first + 1 = chunk_size
        /\ Len(chunks) <= CeilDiv(VoxelsToProcess, chunk_size)
        /\ pc = "done" =>
              /\ Len(chunks) = CeilDiv(VoxelsToProcess, chunk_size)
              /\ \A c \in num_of_other_columns..(VoxelsToProcess + num_of_other_columns - 1) :
                    Cardinality({k \in DOMAIN chunks : chunks[k].first <= c /\ c <= chunks[k].last}) = 1
\* a finished run over 7 voxel columns with chunk_size 3: chunks of 3, 3 and 1
\* voxels, the last numbered 6..6
C2_Witness ==
    /\ pc = "done" /\ NumVoxelColumns = 7 /\ chunk_size = 3
    /\ Len(chunks) = 3
    /\ LastChunk.vox_num_start = 6
    /\ LastChunk.last = LastChunk.first

\* C3: after k chunks the model posterior output holds one row per voxel of
\* the chunks 0..k-1, ascending, Voxel_No the 0-based column position; at the
\* end of the run it has min(num_voxel, N) rows.
C3_AppendOnlyOrdered ==
    pc \in {"loop", "after_loop", "done"} =>
        /\ ModelPosterior.kind # "none"
        /\ Len(ModelPosterior.rows) = Min(iter * chunk_size, VoxelsToProcess)
        /\ \A i \in DOMAIN ModelPosterior.rows : ModelPosterior.rows[i].Voxel_No = i - 1
        /\ pc = "done" => Len(ModelPosterior.rows) = VoxelsToProcess

\* C4 as stated: without ties the accepted count of a voxel is round(thresh * S).
C4_CountIsRound ==
    \A v \in DOMAIN errors :
        NoTies(errors[v]) => CountNonzero(accepted_mask[v]) = PyRound(thresh[1] * S, thresh[2])
\* C4 as amended: without ties the accepted count of a voxel is
\* floor(thresh * (S - 1)) + 1.
C4_CountIsRankPlusOne ==
    \A v \in DOMAIN errors :
        NoTies(errors[v]) =>
            CountNonzero(accepted_mask[v]) = ((thresh[1] * (S - 1)) \div thresh[2]) + 1
\* a voxel with MaxS pairwise different distances, more than one accepted
C4_Witness ==
    /\ errors # <<>> /\ S = MaxS
    /\ NoTies(errors[1])
    /\ CountNonzero(accepted_mask[1]) >= 2

\* C5: with p0 the fraction of the voxel's accepted draws that have model 0,
\* the row's label is "k4 non-zero" exactly when p0 < model_0_prob_thres and
\* its probability is 1 - p0 then and p0 otherwise.
C5_LabelAndProbability ==
    accepted_mask # <<>> =>
        \A v \in DOMAIN accepted_mask :
            \A i \in DOMAIN fs[ModelCsvPath].rows :
                LET row == fs[ModelCsvPath].rows[i]
                    mine == {s \in DOMAIN accepted_mask[v] : accepted_mask[v][s]}
                    p0 == <<Cardinality({s \in mine : par_mat[s].model = 0}), Cardinality(mine)>>
                IN  row.Voxel_No = LastChunk.vox_num_start + v - 1 =>
                        /\ row.model = "k4 non-zero" <=> RatLess(p0, model_0_prob_thres)
                        /\ row.model \in {"k4 zero", "k4 non-zero"}
                        /\ RatEq(row.probability_of_model,
                                 IF row.model = "k4 non-zero" THEN <<p0[2] - p0[1], p0[2]>> ELSE p0)

\* C6: with model_0_prob_thres = 0.5 every row of the model posterior output
\* has probability_of_model in [0.5, 1.0].
C6_ProbabilityAtLeastHalf ==
    RatEq(model_0_prob_thres, <<1, 2>>) =>
        \A p \in Paths : \A i \in DOMAIN fs[p].rows :
            p # ParaPath =>
                /\ RatLeq(<<1, 2>>, fs[p].rows[i].probability_of_model)
                /\ RatLeq(fs[p].rows[i].probability_of_model, <<1, 1>>)
\* a written row at the boundary p0 = 0.5, and the threshold 0.5
C6_Witness ==
    /\ RatEq(model_0_prob_thres, <<1, 2>>)
    /\ \E i \in DOMAIN fs[ModelCsvPath].rows :
          /\ fs[ModelCsvPath].rows[i].model = "k4 zero"
          /\ fs[ModelCsvPath].rows[i].probability_of_model = <<1, 2>>

\* C7: in every state of the run, before and after every chunk, every one of
\* the S draws of the prior matrix with model 0 has alpha1 0.
C7_Model0Alpha1Zero ==
    /\ pc # "main" => Len(par_mat) = S
    /\ \A s \in DOMAIN par_mat : par_mat[s].model = 0 => par_mat[s].alpha1 = 0
\* a finished run whose prior matrix has a draw of either model and whose
\* accepted rows include a draw of model 0
C7_Witness ==
    /\ pc = "done"
    /\ \E s \in DOMAIN par_mat : par_mat[s].model = 1 /\ par_mat[s].alpha1 # 0
    /\ \E i \in DOMAIN fs[ParaPath].rows :
          par_mat[fs[ParaPath].rows[i].draw].model = 0

\* C8: a table with fewer than 3 columns, or with no voxel column, makes vABC
\* fail before any output file is created.
C8_MalformedFailsBeforeOutput ==
    df.ncols <= num_of_other_columns =>
        /\ \A p \in Paths : fs[p].kind = "none"
        /\ pc \notin {"loop", "after_loop", "done"}

\* C9: with output_compressed, during the loop the model posterior exists only
\* as the flat table; after compress_csv the compressed table is at
\* path_output_model with all rows and the flat file is gone.
C9_CompressedAtEnd ==
    output_compressed =>
        /\ pc \in {"loop", "after_loop"} =>
              /\ fs[ModelCsvPath].kind = "csv"
              /\ \A p \in ModelPaths : fs[p].kind # "hdf"
        /\ pc = "done" =>
              /\ fs[path_output_model].kind = "hdf"
              /\ Len(fs[path_output_model].rows) = VoxelsToProcess
              /\ \A p \in Paths : p # ParaPath => fs[p].kind # "csv"

\* C10: when a step of chunk k fails, both output files hold the records of
\* the chunks written before and no record of chunk k.
C10_NoRecordOfFailedChunk ==
    (pc = "failed" /\ chunks # <<>> /\ iter < total_iterations) =>
        /\ RowsOfVoxelsFrom(fs[ParaPath], LastChunk.vox_num_start) = {}
        /\ RowsOfVoxelsFrom(fs[ModelCsvPath], LastChunk.vox_num_start) = {}
        /\ Len(fs[ModelCsvPath].rows) = LastChunk.vox_num_start
        /\ Len(chunks) = iter + 1

\* C11: generate_FDG_models runs once, before the first chunk is extracted,
\* and no later step changes the prior matrix or the predicted TACs: M is
\* written only by the step that starts vABC, from empty, with no chunk
\* extracted yet; par_mat is written only by main; a run in its loop holds the
\* S predictions.
C11_SharedUnchanged ==
    [][/\ M' # M => (pc = "vabc" /\ M = <<>> /\ chunks = <<>> /\ Len(M') = S)
       /\ par_mat' # par_mat => pc = "main"
       /\ pc \in {"loop", "after_loop"} => (Len(M) = S /\ M' = M /\ par_mat' = par_mat)]_vars
\* a finished run of two chunks in which the second voxel did not accept every draw
C11_Witness ==
    /\ pc = "done" /\ Len(chunks) = 2 /\ Len(M) = S
    /\ \E s \in DOMAIN accepted_mask[1] : ~accepted_mask[1][s]

FlatPathDiffers == ~output_compressed \/ ModelCsvPath # path_output_model
\* the accepted counts of the voxels of the last chunk agree
CountsAgree ==
    \A v, w \in DOMAIN accepted_mask :
        CountNonzero(accepted_mask[v]) = CountNonzero(accepted_mask[w])
\* the statement of C3 holds when the flat path differs from path_output_model
C3_HoldsWhenFlatPathDiffers == FlatPathDiffers => C3_AppendOnlyOrdered
\* the statement of C5 holds when the accepted counts agree
C5_HoldsWhenCountsAgree == CountsAgree => C5_LabelAndProbability
\* the statement of C8 holds for tables of fewer than 3 columns
C8_HoldsBelowThreeColumns == df.ncols < num_of_other_columns => C8_MalformedFailsBeforeOutput
\* the statement of C9 holds when the flat path differs from path_output_model
C9_HoldsWhenFlatPathDiffers == FlatPathDiffers => C9_CompressedAtEnd
\* the statement of C10 holds unless the model rows' write fails after the
\* parameter rows were written
C10_HoldsUnlessModelWriteFails == ~(write_paras /\ fault = "model") => C10_NoRecordOfFailedChunk
====
